---- MODULE Spec2Model ----
(***************************************************************************)
(* A model of apex-ts: the Apex scanner (src/src/parser.rs) and the run    *)
(* that drives it (src/src/main.rs).                                       *)
(*                                                                         *)
(* A source text is a sequence of lexemes.  A lexeme is a maximal run of   *)
(* word characters ("public", "String", "a"), an annotation ("@" followed  *)
(* by a word), a comment delimiter, one whitespace character or one        *)
(* punctuation character.  The regular expressions of ApexParser::new are  *)
(* translated lexeme by lexeme, with the leftmost-first (backtracking      *)
(* priority) semantics of the regex crate: a greedy repetition tries one   *)
(* more round first, a lazy one tries to stop first.                       *)
(***************************************************************************)
EXTENDS Integers, Sequences, FiniteSets

VARIABLES
    files,       \* main: apex_files, each a file on disk (readable or not, its text)
    idx,         \* parse_files: position of the for loop in paths
    content,     \* parse_files: the text read from the current file
    pc,          \* position of the run
    class_name,  \* parse_file: class_name
    fields,      \* parse_file: fields
    methods,     \* parse_file: methods
    result,      \* what the last parse_file call returned: "none", "err", "some"
    classes,     \* parse_files: classes
    generated,   \* main: TypeScriptGenerator::generate was invoked
    output,      \* main: what exists at the output path: "untouched", "dir", "file"
    report,      \* main: the line printed to the operator
    params_str,  \* parse_parameters: its argument
    parameters   \* parse_parameters: its return value

vars == <<files, idx, content, pc, class_name, fields, methods, result, classes,
          generated, output, report, params_str, parameters>>

(***************************************************************************)
(* Lexemes                                                                 *)
(***************************************************************************)
Space == {" ", "\n"}

Annotation == {"@AuraEnabled", "@TestVisible", "@tsexport"}

Word == {"public", "private", "class", "static", "String", "Integer", "List",
         "void", "Foo", "a", "b", "s", "m", "n", "doc"}

\* The lexeme at position p, the empty string past either end of the text.
Tok(c, p) == IF p \in 1..Len(c) THEN c[p] ELSE ""

\* c[from..to-1]
Span(c, from, to) == SubSeq(c, from, to - 1)

Min(S) == CHOOSE x \in S : \A y \in S : x <= y

RECURSIVE SkipSpace(_, _)
\* \s* (greedy): the first position at or after p that holds no whitespace.
SkipSpace(c, p) == IF Tok(c, p) \in Space THEN SkipSpace(c, p + 1) ELSE p

\* (?m)^ : p is the start of the text or follows a line break.
AtLineStart(c, p) == p = 1 \/ Tok(c, p - 1) = "\n"

MinOrZero(S) == IF S = {} THEN 0 ELSE Min(S)

\* The first position at or after p that holds lexeme t, 0 when there is none.
FirstAt(c, p, t) == MinOrZero({i \in p..Len(c) : c[i] = t})

(***************************************************************************)
(* ApexParser::new: the five patterns                                      *)
(***************************************************************************)

\* annotation_regex  /\*\*[\s\S]*?@tsexport[\s\S]*?\*/  : is_match
annotation_regex(c) ==
    \E i \in 1..Len(c), j \in 1..Len(c), k \in 1..Len(c) :
        /\ i < j /\ j < k
        /\ c[i] = "/**" /\ c[j] = "@tsexport" /\ c[k] = "*/"

\* aura_enabled_regex  @AuraEnabled(?:\([^)]*\))?  : is_match on a piece of text
aura_enabled_regex(t) == \E i \in 1..Len(t) : t[i] = "@AuraEnabled"

\* ClassAt without the ^ of the pattern.
ClassAt_Unanchored(c, s) ==
    LET p2 == SkipSpace(c, s + 1)
        p3 == SkipSpace(c, p2 + 1)
    IN  IF /\ Tok(c, s) = "public" /\ Tok(c, s + 1) \in Space
           /\ Tok(c, p2) = "class" /\ Tok(c, p2 + 1) \in Space
           /\ Tok(c, p3) \in Word
        THEN Tok(c, p3) ELSE ""

\* class_regex anchored at s:  (?m)^\s*public\s+class\s+(\w+) ; the captured
\* name, or "" when the pattern does not match at s.
ClassAt(c, s) ==
    LET p1 == SkipSpace(c, s)
        p2 == SkipSpace(c, p1 + 1)
        p3 == SkipSpace(c, p2 + 1)
    IN  IF /\ AtLineStart(c, s)
           /\ Tok(c, p1) = "public" /\ Tok(c, p1 + 1) \in Space
           /\ Tok(c, p2) = "class" /\ Tok(c, p2 + 1) \in Space
           /\ Tok(c, p3) \in Word
        THEN Tok(c, p3) ELSE ""

ClassAtOrNone(c, s) == IF s = 0 THEN "" ELSE ClassAt(c, s)

\* class_regex.captures(content).get(1): the name of the leftmost match, ""
\* for None.
class_regex(c) == ClassAtOrNone(c, MinOrZero({s \in 1..Len(c) : ClassAt(c, s) # ""}))

NoMatch == [ok |-> FALSE]

AfterArguments(c, p, close) ==
    IF Tok(c, p + 1) = "(" /\ close # 0 THEN close + 1 ELSE p + 1

\* @\w+(?:\([^)]*\))?  at p (which holds an annotation): the position after it.
AnnotEnd(c, p) == AfterArguments(c, p, FirstAt(c, p + 2, ")"))

\* \w+(?:<[\w\s,]+>)?  at p: the position after it, 0 when p holds no word.
TypeEnd(c, p) ==
    LET S == {i \in (p + 2)..(Len(c) + 1) : Tok(c, i) \notin (Word \cup Space \cup {","})}
        q == Min(S)
    IN  IF Tok(c, p) \notin Word THEN 0
        ELSE IF Tok(c, p + 1) = "<" /\ q > p + 2 /\ Tok(c, q) = ">" THEN q + 1
        ELSE p + 1

\* field_with_line_regex after `public`:  \s+(type)\s+(\w+)\s*;
FieldRest(c, pub) ==
    LET pType == SkipSpace(c, pub + 1)
        tEnd  == TypeEnd(c, pType)
        pName == SkipSpace(c, tEnd)
        pSemi == SkipSpace(c, pName + 1)
    IN  IF /\ Tok(c, pub + 1) \in Space
           /\ tEnd # 0 /\ Tok(c, tEnd) \in Space
           /\ Tok(c, pName) \in Word
           /\ Tok(c, pSemi) = ";"
        THEN [ok |-> TRUE, type |-> Span(c, pType, tEnd), name |-> Tok(c, pName),
              static |-> FALSE, params |-> <<>>, end |-> pSemi + 1]
        ELSE NoMatch

\* method_regex from the return type on:  (type)\s+(\w+)\s*\(([^)]*)\)
MethodSignature(c, pType, isStatic) ==
    LET tEnd   == TypeEnd(c, pType)
        pName  == SkipSpace(c, tEnd)
        pOpen  == SkipSpace(c, pName + 1)
        pClose == FirstAt(c, pOpen + 1, ")")
    IN  IF /\ tEnd # 0 /\ Tok(c, tEnd) \in Space
           /\ Tok(c, pName) \in Word
           /\ Tok(c, pOpen) = "("
           /\ pClose # 0
        THEN [ok |-> TRUE, type |-> Span(c, pType, tEnd), name |-> Tok(c, pName),
              static |-> isStatic, params |-> Span(c, pOpen + 1, pClose),
              end |-> pClose + 1]
        ELSE NoMatch

\* method_regex after `public`:  \s+(static\s+)?(type)\s+(\w+)\s*\(([^)]*)\)
\* The optional group is greedy: `static` is a modifier first and, when the
\* rest then fails, the return type.
MethodRest(c, pub) ==
    LET p1 == SkipSpace(c, pub + 1)
        withStatic == MethodSignature(c, SkipSpace(c, p1 + 1), TRUE)
    IN  IF Tok(c, pub + 1) \notin Space THEN NoMatch
        ELSE IF Tok(c, p1) = "static" /\ Tok(c, p1 + 1) \in Space /\ withStatic.ok
        THEN withStatic
        ELSE MethodSignature(c, p1, FALSE)

\* (@\w+(?:\([^)]*\))?\s+)?  at p: the position after the optional inline
\* annotation, 0 when an annotation is there and no whitespace follows it.
AfterInline(c, e) == IF Tok(c, e) \in Space THEN SkipSpace(c, e) ELSE 0

InlineEnd(c, p) == IF Tok(c, p) \in Annotation THEN AfterInline(c, AnnotEnd(c, p)) ELSE p

\* The captures of a declaration: capture 1 ends at q, capture 2 is `inline`.
Member(q, inline, rest) ==
    IF rest.ok
    THEN [ok |-> TRUE, g1end |-> q, same_line_annotation |-> inline,
          type |-> rest.type, name |-> rest.name, static |-> rest.static,
          params |-> rest.params, end |-> rest.end]
    ELSE NoMatch

DeclarationFrom(kind, c, q, p1, pub) ==
    IF Tok(c, pub) = "public"
    THEN Member(q, Span(c, p1, pub),
                IF kind = "field" THEN FieldRest(c, pub) ELSE MethodRest(c, pub))
    ELSE NoMatch

\* What follows capture 1 in both member patterns, at q:
\*   \s*(@\w+(?:\([^)]*\))?\s+)?public ...
\* Capture 2 is the text from the annotation to `public`, empty without one.
Declaration(kind, c, q) ==
    DeclarationFrom(kind, c, q, SkipSpace(c, q), InlineEnd(c, SkipSpace(c, q)))

ItemEndsFrom(c, p1) ==
    IF Tok(c, p1) = "/**" THEN {k + 1 : k \in {i \in (p1 + 1)..Len(c) : c[i] = "*/"}}
    ELSE IF Tok(c, p1) \in Annotation THEN {AnnotEnd(c, p1)}
    ELSE {}

\* The ends of the comment or annotation of one round of capture 1 begun at p:
\*   ^\s*(?:/\*\*[\s\S]*?\*/|@\w+(?:\([^)]*\))?)
\* The comment is lazy: it tries to end at the nearest `*/` first and, when
\* what follows fails, at each later one.
ItemEnds(c, p) == IF AtLineStart(c, p) THEN ItemEndsFrom(c, SkipSpace(c, p)) ELSE {}

\* \s*\n after an item that ended at e: the positions after the line breaks of
\* the whitespace run.  It is greedy: the last line break is tried first.
BreakEnds(c, e) == {n + 1 : n \in {i \in e..(SkipSpace(c, e) - 1) : c[i] = "\n"}}

\* The elements of a set of numbers in ascending and in descending order.
Ascending(S) ==
    [i \in 1..Cardinality(S) |-> CHOOSE x \in S : Cardinality({y \in S : y < x}) = i - 1]

Descending(S) ==
    [i \in 1..Cardinality(S) |-> CHOOSE x \in S : Cardinality({y \in S : y > x}) = i - 1]

RECURSIVE FlattenFrom(_, _)
FlattenFrom(ss, i) == IF i > Len(ss) THEN <<>> ELSE ss[i] \o FlattenFrom(ss, i + 1)

Flatten(ss) == FlattenFrom(ss, 1)

RoundEndsOf(c, items) ==
    Flatten([i \in 1..Len(items) |-> Descending(BreakEnds(c, items[i]))])

\* Where one round of capture 1 begun at p may end, most preferred first.
RoundEnds(c, p) == RoundEndsOf(c, Ascending(ItemEnds(c, p)))

\* The declaration that follows capture 1 at q, as a sequence of no or one match.
DeclarationAt(kind, c, q) ==
    SelectSeq(<<Declaration(kind, c, q)>>, LAMBDA r : r.ok)

RECURSIVE Capture1(_, _, _)
RECURSIVE Rounds(_, _, _)
\* ((?:round)*) followed by the declaration, from p: every way the pattern
\* matches from p, in the order the matcher tries them.  The repetition is
\* greedy, so the ways through one more round come before the declaration
\* right at p; the rounds come in the order of RoundEnds.
Capture1(kind, c, p) == Rounds(kind, c, RoundEnds(c, p)) \o DeclarationAt(kind, c, p)

Rounds(kind, c, ends) == Flatten([i \in 1..Len(ends) |-> Capture1(kind, c, ends[i])])

MatchRecord(c, s, r) ==
    [ok |-> TRUE, start |-> s,
     prev_line_annotations |-> Span(c, s, r.g1end),
     same_line_annotation |-> r.same_line_annotation,
     type |-> r.type, name |-> r.name, static |-> r.static,
     params |-> r.params, end |-> r.end]

FirstWay(c, s, ways) ==
    IF ways = <<>> THEN [ok |-> FALSE, start |-> s] ELSE MatchRecord(c, s, Head(ways))

\* The member pattern (field_with_line_regex, method_regex) matched at s: the
\* first way the matcher finds.  Capture 1 is the text from s to the start of
\* the declaration.
MatchAt(kind, c, s) == FirstWay(c, s, Capture1(kind, c, s))

RECURSIVE captures_iter(_, _, _)
RECURSIVE MatchesFrom(_, _, _)
RECURSIVE MatchesAfter(_, _, _)
\* Regex::captures_iter: the leftmost match at or after `from`, then the
\* matches after its end; no two overlap.
captures_iter(kind, c, from) ==
    MatchesFrom(kind, c, MinOrZero({s \in from..Len(c) : MatchAt(kind, c, s).ok}))

\* s is where the leftmost match begins, 0 when nothing matches any more.
MatchesFrom(kind, c, s) ==
    IF s = 0 THEN <<>> ELSE MatchesAfter(kind, c, MatchAt(kind, c, s))

MatchesAfter(kind, c, m) == <<m>> \o captures_iter(kind, c, m.end)

field_with_line_regex(c) == captures_iter("field", c, 1)

method_regex(c) == captures_iter("method", c, 1)

(***************************************************************************)
(* ApexParser::parse_parameters                                            *)
(***************************************************************************)
RECURSIVE Split(_, _)
RECURSIVE SplitAt(_, _, _)
\* str::split(sep): the pieces between the separators, empty pieces included.
Split(s, sep) == SplitAt(s, sep, FirstAt(s, 1, sep))

SplitAt(s, sep, k) ==
    IF k = 0 THEN <<s>>
    ELSE <<Span(s, 1, k)>> \o Split(SubSeq(s, k + 1, Len(s)), sep)

\* The end of the run of non-whitespace that begins at `from`.
RunEnd(s, from) == Min({i \in from..(Len(s) + 1) : Tok(s, i) \in Space \/ i = Len(s) + 1})

RECURSIVE split_whitespace(_)
RECURSIVE PartsFrom(_, _)
\* str::split_whitespace: the maximal runs of non-whitespace, in order.
split_whitespace(s) == PartsFrom(s, SkipSpace(s, 1))

PartsFrom(s, from) ==
    IF from > Len(s) THEN <<>>
    ELSE <<Span(s, from, RunEnd(s, from))>>
         \o split_whitespace(SubSeq(s, RunEnd(s, from), Len(s)))

\* param.trim().split_whitespace().collect(): trimming removes only what
\* split_whitespace skips anyway.
Parts(param) == split_whitespace(param)

\* KeepParameter with `>` for `>=`.
KeepParameter_MoreThanTwo(param) == Len(Parts(param)) > 2

\* The closure of filter_map: Some(ApexParameter) for two parts or more.
KeepParameter(param) == Len(Parts(param)) >= 2

ApexParameter(param) ==
    [param_type |-> Parts(param)[1], name |-> Parts(param)[2]]

ApexParameters(kept) == [i \in 1..Len(kept) |-> ApexParameter(kept[i])]

parse_parameters(s) ==
    IF split_whitespace(s) = <<>> THEN <<>>
    ELSE ApexParameters(SelectSeq(Split(s, ","), KeepParameter))

(***************************************************************************)
(* ApexParser::parse_file: the two member loops                            *)
(***************************************************************************)
\* has_aura_enabled with `&&` for `||`.
has_aura_enabled_both(m) ==
    /\ aura_enabled_regex(m.prev_line_annotations)
    /\ aura_enabled_regex(m.same_line_annotation)

\* has_aura_enabled: the two captures are tested independently.
has_aura_enabled(m) ==
    \/ aura_enabled_regex(m.prev_line_annotations)
    \/ aura_enabled_regex(m.same_line_annotation)

ApexField(m) == [name |-> m.name, field_type |-> m.type, is_optional |-> FALSE]

ApexMethod(m) ==
    [name |-> m.name, return_type |-> m.type,
     parameters |-> parse_parameters(m.params), is_static |-> m.static]

ApexFields(kept) == [i \in 1..Len(kept) |-> ApexField(kept[i])]

ApexMethods(kept) == [i \in 1..Len(kept) |-> ApexMethod(kept[i])]

Reverse(q) == [i \in 1..Len(q) |-> q[Len(q) + 1 - i]]

\* ExposedFields with fields.insert(0, ..) for fields.push(..).
ExposedFields_Prepend(c) ==
    Reverse(ApexFields(SelectSeq(field_with_line_regex(c), has_aura_enabled)))

\* The for loop over field_with_line_regex.captures_iter(content).
ExposedFields(c) == ApexFields(SelectSeq(field_with_line_regex(c), has_aura_enabled))

\* The for loop over method_regex.captures_iter(content).
ExposedMethods(c) == ApexMethods(SelectSeq(method_regex(c), has_aura_enabled))

ApexClass == [name |-> class_name, fields |-> fields, methods |-> methods]

(***************************************************************************)
(* The run: main, parse_files, parse_file                                  *)
(***************************************************************************)
\* main: no .cls file was found, or the files go to parse_files.
Scan ==
    /\ pc = "start"
    /\ IF files = <<>>
       THEN /\ report' = "No Apex class files (.cls) found"
            /\ pc' = "done"
       ELSE /\ pc' = "loop"
            /\ UNCHANGED report
    /\ UNCHANGED <<files, idx, content, class_name, fields, methods, result, classes,
                   generated, output, params_str, parameters>>

\* parse_files: the head of the for loop, fs::read_to_string(path)?
ReadFile ==
    /\ pc = "loop"
    /\ IF idx > Len(files)
       THEN /\ pc' = "parsed"
            /\ UNCHANGED <<content, classes>>
       ELSE IF ~files[idx].readable
       THEN /\ pc' = "failed"
            /\ classes' = <<>>
            /\ UNCHANGED content
       ELSE /\ pc' = "gate"
            /\ content' = files[idx].text
            /\ UNCHANGED classes
    /\ UNCHANGED <<files, idx, class_name, fields, methods, result, generated, output,
                   report, params_str, parameters>>

\* ParseGate with the class name looked up before the marker.
ParseGate_ClassFirst ==
    /\ pc = "gate"
    /\ IF class_regex(content) = ""
       THEN /\ result' = "err"
            /\ pc' = "returned"
            /\ UNCHANGED class_name
       ELSE IF ~annotation_regex(content)
       THEN /\ result' = "none"
            /\ pc' = "returned"
            /\ UNCHANGED class_name
       ELSE /\ class_name' = class_regex(content)
            /\ pc' = "fields"
            /\ UNCHANGED result
    /\ UNCHANGED <<files, idx, content, fields, methods, classes, generated, output,
                   report, params_str, parameters>>

\* parse_file: the marker gate, then the class name.
ParseGate ==
    /\ pc = "gate"
    /\ IF ~annotation_regex(content)
       THEN /\ result' = "none"
            /\ pc' = "returned"
            /\ UNCHANGED class_name
       ELSE IF class_regex(content) = ""
       THEN /\ result' = "err"
            /\ pc' = "returned"
            /\ UNCHANGED class_name
       ELSE /\ class_name' = class_regex(content)
            /\ pc' = "fields"
            /\ UNCHANGED result
    /\ UNCHANGED <<files, idx, content, fields, methods, classes, generated, output,
                   report, params_str, parameters>>

\* parse_file: the field loop.
ParseFields ==
    /\ pc = "fields"
    /\ fields' = ExposedFields(content)
    /\ pc' = "methods"
    /\ UNCHANGED <<files, idx, content, class_name, methods, result, classes, generated,
                   output, report, params_str, parameters>>

\* parse_file: the method loop and Ok(Some(ApexClass {..})).
ParseMethods ==
    /\ pc = "methods"
    /\ methods' = ExposedMethods(content)
    /\ result' = "some"
    /\ pc' = "returned"
    /\ UNCHANGED <<files, idx, content, class_name, fields, classes, generated, output,
                   report, params_str, parameters>>

\* Collect with a failed parse_file skipped like a text without the marker.
Collect_SwallowError ==
    /\ pc = "returned"
    /\ pc' = "loop"
    /\ idx' = idx + 1
    /\ classes' = IF result = "some" THEN Append(classes, ApexClass) ELSE classes
    /\ content' = <<>>
    /\ class_name' = ""
    /\ fields' = <<>>
    /\ methods' = <<>>
    /\ UNCHANGED <<files, result, generated, output, report, params_str, parameters>>

\* parse_files: `if let Some(class) = self.parse_file(&content)? { push }`,
\* and the end of the loop body, where the text is dropped.
Collect ==
    /\ pc = "returned"
    /\ IF result = "err"
       THEN /\ pc' = "failed"
            /\ classes' = <<>>
            /\ UNCHANGED idx
       ELSE /\ pc' = "loop"
            /\ idx' = idx + 1
            /\ classes' = IF result = "some" THEN Append(classes, ApexClass) ELSE classes
    /\ content' = <<>>
    /\ class_name' = ""
    /\ fields' = <<>>
    /\ methods' = <<>>
    /\ UNCHANGED <<files, result, generated, output, report, params_str, parameters>>

\* Generate without the classes.is_empty() return.
Generate_NoEmptyCheck ==
    /\ pc = "parsed"
    /\ generated' = TRUE
    /\ pc' = "write"
    /\ UNCHANGED <<files, idx, content, class_name, fields, methods, result, classes,
                   output, report, params_str, parameters>>

\* main: classes.is_empty(), else generator.generate(&classes).
Generate ==
    /\ pc = "parsed"
    /\ IF classes = <<>>
       THEN /\ report' = "No classes with @tsexport annotation found"
            /\ pc' = "done"
            /\ UNCHANGED generated
       ELSE /\ generated' = TRUE
            /\ pc' = "write"
            /\ UNCHANGED report
    /\ UNCHANGED <<files, idx, content, class_name, fields, methods, result, classes,
                   output, params_str, parameters>>

\* main: fs::create_dir_all(parent)? and fs::write(&cli.output, ..)?, either of
\* which the file system may refuse.
WriteOutput ==
    /\ pc = "write"
    /\ \E outcome \in {"no_dir", "no_file", "ok"} :
         /\ output' = CASE outcome = "no_dir" -> "untouched"
                        [] outcome = "no_file" -> "dir"
                        [] OTHER -> "file"
         /\ pc' = IF outcome = "ok" THEN "done" ELSE "failed"
         /\ report' = IF outcome = "ok" THEN "Successfully generated TypeScript definitions"
                      ELSE report
    /\ UNCHANGED <<files, idx, content, class_name, fields, methods, result, classes,
                   generated, params_str, parameters>>

\* A call of parse_parameters on its own.
ParseParameters ==
    /\ pc = "params"
    /\ parameters' = parse_parameters(params_str)
    /\ pc' = "params_done"
    /\ UNCHANGED <<files, idx, content, class_name, fields, methods, result, classes,
                   generated, output, report, params_str>>

Next ==
    \/ Scan
    \/ ReadFile
    \/ ParseGate
    \/ ParseFields
    \/ ParseMethods
    \/ Collect
    \/ Generate
    \/ WriteOutput

(***************************************************************************)
(* Inputs: the files the run is given                                      *)
(***************************************************************************)
MaxChunks == 3

MaxFiles == 3

MaxParamLen == 6

\* The sequences over S of length at most n.
SeqsUpTo(S, n) == UNION {[1..k -> S] : k \in 0..n}

MarkerComment == <<"/**", " ", "@tsexport", " ", "*/">>
DocComment    == <<"/**", " ", "doc", " ", "*/", "\n">>
ClassLine     == <<"public", " ", "class", " ", "Foo", " ", "{", "\n">>
FieldA        == <<"public", " ", "String", " ", "a", ";", "\n">>
FieldB        == <<"public", " ", "String", " ", "b", ";", "\n">>
PrivateField  == <<"private", " ", "String", " ", "s", ";", "\n">>
MethodM       == <<"public", " ", "static", " ", "List", "<", "String", ">", " ", "m",
                   "(", "Integer", " ", "a", ",", " ", "b", ")", " ", "{", "}", "\n">>
MethodN       == <<"public", " ", "void", " ", "n", "(", ")", " ", "{", "}", "\n">>

\* The pieces a class body is put together from: annotation lines (with and
\* without arguments), a doc comment, and declarations, some of them with the
\* annotation before `public` on the same line.
MemberChunks ==
    { <<"@AuraEnabled", "\n">>,
      <<"@AuraEnabled", "(", "cacheable=true", ")", "\n">>,
      <<"@TestVisible", "\n">>,
      DocComment,
      FieldA,
      <<"@AuraEnabled", " ">> \o FieldB,
      <<"@AuraEnabled", " ">> \o PrivateField,
      MethodM,
      <<"@AuraEnabled", " ">> \o MethodN }

\* The pieces the top of a file is put together from: the marker inside a
\* comment (ending its line or not), the marker on a line of its own, a
\* comment without it, the class line and an exposed field.
GateChunks ==
    { MarkerComment \o <<"\n">>,
      MarkerComment \o <<" ">>,
      <<"@tsexport", "\n">>,
      DocComment,
      ClassLine,
      <<"@AuraEnabled", " ">> \o FieldB }

Header == MarkerComment \o <<"\n">> \o ClassLine

File(text) == [readable |-> TRUE, text |-> text]

Unreadable == [readable |-> FALSE, text |-> <<>>]

\* The files of a run over several: one that cannot be read, one without the
\* marker, one with the marker and no class, one class with nothing exposed
\* and two with an exposed member.
Catalogue ==
    { Unreadable,
      File(ClassLine \o <<"@AuraEnabled", " ">> \o FieldB),
      File(MarkerComment \o <<"\n", "@AuraEnabled", " ">> \o FieldB),
      File(Header \o FieldA),
      File(Header \o <<"@AuraEnabled", " ">> \o FieldB) }

ParamAtoms == {"Integer", "a", "b", " ", ","}

InitRun(fs) ==
    /\ files = fs
    /\ idx = 1
    /\ content = <<>>
    /\ pc = "start"
    /\ class_name = ""
    /\ fields = <<>>
    /\ methods = <<>>
    /\ result = "-"
    /\ classes = <<>>
    /\ generated = FALSE
    /\ output = "untouched"
    /\ report = ""
    /\ params_str = <<>>
    /\ parameters = <<>>

\* One file: any top of a file.
InitGate == \E cs \in SeqsUpTo(GateChunks, MaxChunks) : InitRun(<<File(Flatten(cs))>>)

\* One file: the marker, the class line and any class body.
InitMember ==
    \E cs \in SeqsUpTo(MemberChunks, MaxChunks) : InitRun(<<File(Header \o Flatten(cs))>>)

\* Several files.
InitFiles == \E fs \in SeqsUpTo(Catalogue, MaxFiles) : InitRun(fs)

\* A parameter text.
InitParams ==
    \E s \in SeqsUpTo(ParamAtoms, MaxParamLen) :
        /\ files = <<>>
        /\ idx = 1
        /\ content = <<>>
        /\ pc = "params"
        /\ class_name = ""
        /\ fields = <<>>
        /\ methods = <<>>
        /\ result = "-"
        /\ classes = <<>>
        /\ generated = FALSE
        /\ output = "untouched"
        /\ report = ""
        /\ params_str = s
        /\ parameters = <<>>

Init == InitGate \/ InitMember \/ InitFiles

Spec == Init /\ [][Next]_vars

SpecGate == InitGate /\ [][Next]_vars

SpecMember == InitMember /\ [][Next]_vars

SpecFiles == InitFiles /\ [][Next]_vars

SpecParams == InitParams /\ [][ParseParameters]_vars

(***************************************************************************)
(* What a text says, read line by line and without the patterns            *)
(***************************************************************************)
\* The start of the line that holds position p.
LineStart(c, p) == CHOOSE i \in 1..p : AtLineStart(c, i) /\ \A j \in (i + 1)..p : ~AtLineStart(c, j)

\* `public` at p begins a field declaration, a method declaration.
FieldDeclAt(c, p) == Tok(c, p) = "public" /\ FieldRest(c, p).ok

MethodDeclAt(c, p) == Tok(c, p) = "public" /\ MethodRest(c, p).ok

\* The line at ls holds one annotation, with or without arguments, and nothing else.
IsAnnotationLine(c, ls) ==
    /\ Tok(c, SkipSpace(c, ls)) \in Annotation
    /\ \E e \in {AnnotEnd(c, SkipSpace(c, ls))} :
         /\ \A i \in e..(SkipSpace(c, e) - 1) : i = SkipSpace(c, e) - 1 \/ c[i] # "\n"
         /\ Tok(c, SkipSpace(c, e) - 1) = "\n"
         /\ SkipSpace(c, e) > e

\* The doc comment whose `*/` ends the line before the line at ls: where it
\* opens, 0 when that line does not end a comment that begins its own line.
DocCommentAbove(c, ls) ==
    IF ls >= 3 /\ Tok(c, ls - 2) = "*/"
    THEN MinOrZero({o \in 1..(ls - 3) :
                      /\ c[o] = "/**" /\ AtLineStart(c, o)
                      /\ \A i \in (o + 1)..(ls - 3) : c[i] \notin {"/**", "*/"}})
    ELSE 0

RECURSIVE PrecedingAura(_, _)
\* @AuraEnabled stands on one of the annotation and doc-comment lines right
\* above the line at ls.
PrecedingAura(c, ls) ==
    IF ls <= 1 THEN FALSE
    ELSE IF IsAnnotationLine(c, LineStart(c, ls - 1))
    THEN \/ Tok(c, SkipSpace(c, LineStart(c, ls - 1))) = "@AuraEnabled"
         \/ PrecedingAura(c, LineStart(c, ls - 1))
    ELSE IF DocCommentAbove(c, ls) # 0
    THEN PrecedingAura(c, DocCommentAbove(c, ls))
    ELSE FALSE

\* @AuraEnabled stands on the declaration's own line before `public` at p.
InlineAura(c, p) == \E i \in LineStart(c, p)..(p - 1) : c[i] = "@AuraEnabled"

\* The member declared at p carries the annotation in one of the two places.
Annotated(c, p) == InlineAura(c, p) \/ PrecedingAura(c, LineStart(c, p))

\* The marker stands between a comment's own opening and closing delimiters.
MarkerInComment(c) ==
    \E i \in 1..Len(c), j \in 1..Len(c), k \in 1..Len(c) :
        /\ i < j /\ j < k
        /\ c[i] = "/**" /\ c[j] = "@tsexport" /\ c[k] = "*/"
        /\ \A x \in (i + 1)..(j - 1) : c[x] # "*/"

HasMarkerToken(c) == \E j \in 1..Len(c) : c[j] = "@tsexport"

\* A line of the text begins, after whitespace only, with public class <identifier>.
LineAnchoredClass(c) ==
    \E p \in 1..Len(c) :
        /\ Tok(c, p) = "public" /\ Tok(c, p + 1) = " " /\ Tok(c, p + 2) = "class"
        /\ Tok(c, p + 3) = " " /\ Tok(c, p + 4) \in Word
        /\ \A i \in LineStart(c, p)..(p - 1) : c[i] \in Space

Names(rs) == [i \in 1..Len(rs) |-> rs[i].name]

\* s is t with some elements left out.
IsSubsequence(s, t) ==
    \E f \in [1..Len(s) -> 1..Len(t)] :
        /\ \A i \in 1..Len(s) : s[i] = t[f[i]]
        /\ \A i \in 1..Len(s), j \in 1..Len(s) : i < j => f[i] < f[j]

RestAt(c, kind, p) == IF kind = "field" THEN FieldRest(c, p) ELSE MethodRest(c, p)

NamesAt(c, kind, ps) == [i \in 1..Len(ps) |-> RestAt(c, kind, ps[i]).name]

\* The names of the declarations of a text, in the order of the text.
DeclaredNames(c, kind) ==
    NamesAt(c, kind, Ascending({p \in 1..Len(c) : Tok(c, p) = "public" /\ RestAt(c, kind, p).ok}))

Returned == pc = "returned" /\ result = "some"

(***************************************************************************)
(* Claims                                                                  *)
(***************************************************************************)

\* C1: every member of the returned record has @AuraEnabled on the annotation
\* and doc-comment lines right above its declaration or inline before its
\* `public`, whatever surrounds it.
C1_OnlyAnnotatedMembers ==
    Returned =>
        /\ \A i \in 1..Len(fields) :
             \E p \in 1..Len(content) :
                 /\ FieldDeclAt(content, p)
                 /\ FieldRest(content, p).name = fields[i].name
                 /\ Annotated(content, p)
        /\ \A i \in 1..Len(methods) :
             \E p \in 1..Len(content) :
                 /\ MethodDeclAt(content, p)
                 /\ MethodRest(content, p).name = methods[i].name
                 /\ Annotated(content, p)

\* C2: a text without the marker yields "not applicable", never an error,
\* also when it holds no class declaration.
C2_NoMarkerNotApplicable ==
    (pc = "returned" /\ ~HasMarkerToken(content)) => result = "none"

C2_Reached ==
    /\ pc = "returned" /\ result = "none"
    /\ content # <<>> /\ ~HasMarkerToken(content) /\ ~LineAnchoredClass(content)

\* C3: a text that passes the marker gate and has no line-anchored
\* public class <identifier> fails, with nothing extracted and no record.
C3_MissingClassFails ==
    (pc = "returned" /\ annotation_regex(content) /\ ~LineAnchoredClass(content)) =>
        /\ result = "err"
        /\ class_name = "" /\ fields = <<>> /\ methods = <<>>
        /\ classes = <<>>

C3_Reached ==
    /\ pc = "returned" /\ result = "err"
    /\ MarkerInComment(content) /\ ~LineAnchoredClass(content)
    /\ \E p \in 1..Len(content) : FieldDeclAt(content, p) /\ Annotated(content, p)
    /\ \E p \in 1..Len(content) : Tok(content, p) = "class"

\* A file that is fatal for the run.
Fatal(f) == ~f.readable \/ (annotation_regex(f.text) /\ ~LineAnchoredClass(f.text))

\* C4: with a fatal file in the list the run fails: no class list comes back,
\* the generator is not invoked and nothing is written, whatever the files
\* before it yielded.
C4_NoPartialResult ==
    (\E i \in 1..Len(files) : Fatal(files[i])) =>
        /\ ~generated
        /\ output = "untouched"
        /\ pc \notin {"parsed", "write", "done"}
        /\ pc = "failed" => classes = <<>>

C4_Reached ==
    /\ pc = "failed"
    /\ Len(files) >= 2 /\ idx = 2
    /\ files[1].readable /\ MarkerInComment(files[1].text) /\ LineAnchoredClass(files[1].text)
    /\ Fatal(files[2])

\* C5: when the files were parsed and none yielded a record, the generator is
\* not invoked, nothing is created at the output path, and the run says that
\* nothing was found and ends well.
C5_NothingFound ==
    /\ classes = <<>> => (~generated /\ output = "untouched")
    /\ (pc = "done" /\ classes = <<>>) =>
          report = IF files = <<>> THEN "No Apex class files (.cls) found"
                   ELSE "No classes with @tsexport annotation found"
    /\ (\A i \in 1..Len(files) : files[i].readable /\ ~annotation_regex(files[i].text)) =>
          pc \notin {"failed", "write"}

C5_Reached ==
    /\ pc = "done" /\ files # <<>> /\ classes = <<>>
    /\ report = "No classes with @tsexport annotation found"
    /\ \E i \in 1..Len(files) : LineAnchoredClass(files[i].text)

\* The matches lie one after the other in the text.
LeftToRight(ms) ==
    \A i \in 1..Len(ms), j \in 1..Len(ms) : i < j => ms[i].end <= ms[j].start

\* C6: the fields and the methods of the record stand in the order of their
\* declarations in the text, none left out, moved or merged.
C6_SourceOrder ==
    Returned =>
        /\ Names(fields) = Names(SelectSeq(field_with_line_regex(content), has_aura_enabled))
        /\ Names(methods) = Names(SelectSeq(method_regex(content), has_aura_enabled))
        /\ IsSubsequence(Names(fields), DeclaredNames(content, "field"))
        /\ IsSubsequence(Names(methods), DeclaredNames(content, "method"))
        /\ LeftToRight(field_with_line_regex(content))
        /\ LeftToRight(method_regex(content))

C6_Reached ==
    /\ Returned
    /\ Names(fields) = <<"b", "a">>

\* @AuraEnabled is in capture 1 of match m, in capture 2.
InCapture1(m) == aura_enabled_regex(m.prev_line_annotations)

InCapture2(m) == aura_enabled_regex(m.same_line_annotation)

\* Every match with the annotation in one of its captures has its member,
\* name and type, among the records rs.
QualifiedAreIn(ms, rs) ==
    \A i \in 1..Len(ms) :
        (InCapture1(ms[i]) \/ InCapture2(ms[i])) =>
            \E k \in 1..Len(rs) : rs[k].name = ms[i].name /\ rs[k].type = ms[i].type

FieldTypes(rs) == [k \in 1..Len(rs) |-> [name |-> rs[k].name, type |-> rs[k].field_type]]

MethodTypes(rs) == [k \in 1..Len(rs) |-> [name |-> rs[k].name, type |-> rs[k].return_type]]

Capture1Alone(ms, rs) ==
    \E i \in 1..Len(ms) :
        /\ InCapture1(ms[i]) /\ ~InCapture2(ms[i])
        /\ \E k \in 1..Len(rs) : rs[k].name = ms[i].name

\* A member is in the record whose match has the annotation in capture 2 alone.
Capture2Alone(ms, rs) ==
    \E i \in 1..Len(ms) :
        /\ ~InCapture1(ms[i]) /\ InCapture2(ms[i])
        /\ \E k \in 1..Len(rs) : rs[k].name = ms[i].name

C9_MarkerInsideComment ==
    (pc = "returned" /\ ~MarkerInComment(content)) => result = "none"

\* The positions of the commas of a parameter text, in order.
Commas(s) == Ascending({i \in 1..Len(s) : s[i] = ","})

\* Segment k of the text lies between comma k - 1 and comma k.
SegmentStart(s, k) == IF k = 1 THEN 1 ELSE Commas(s)[k - 1] + 1

SegmentEnd(s, k) == IF k = Len(Commas(s)) + 1 THEN Len(s) ELSE Commas(s)[k] - 1

\* Where the tokens of segment k begin: at a non-blank after a blank or at
\* the start of the segment.
TokenStarts(s, k) ==
    Ascending({i \in SegmentStart(s, k)..SegmentEnd(s, k) :
                 /\ s[i] \notin Space
                 /\ i = SegmentStart(s, k) \/ s[i - 1] \in Space})

\* The token of segment k that begins at i.
TokenAt(s, k, i) ==
    Span(s, i, Min({j \in (i + 1)..(SegmentEnd(s, k) + 1) :
                      j = SegmentEnd(s, k) + 1 \/ s[j] \in Space}))

\* The segments with two tokens or more, in order.
TwoOrMore(s) == Ascending({k \in 1..(Len(Commas(s)) + 1) : Len(TokenStarts(s, k)) >= 2})

IntegerA_B == <<"Integer", " ", "a", ",", " ", "b">>

C8_ExactlyTypeAndName ==
    pc = "params_done" =>
        \A n \in 1..Len(parameters) :
            Len(TokenStarts(params_str, TwoOrMore(params_str)[n])) = 2

====
